---- MODULE Spec2Model ----
(***************************************************************************)
(* Model of zalando_deploy_cli/cli.py: the commands that plan replica      *)
(* counts, build a resources_update document and drive a change request    *)
(* through submit, approve and execute.                                    *)
(*                                                                         *)
(* One behaviour of the model is one invocation of the command line tool.  *)
(* Strings that the program compares or formats (deployment names, the     *)
(* ratio argument) are sequences of character codes, so that sorting and   *)
(* parsing are computed the way Python computes them.  Everything the      *)
(* invocation prints or calls is appended, in program order, to `events`.  *)
(***************************************************************************)
EXTENDS Integers, Sequences, FiniteSets, TLC

VARIABLES
    command,               \* the click command being run
    config_user,           \* config.get('user'), "" when none is configured
    application,           \* APPLICATION argument (character codes)
    timeout,               \* --timeout of wait-for-deployment, in seconds
    interval,              \* --interval of wait-for-deployment, in seconds
    now,                   \* time.time(), in seconds since the invocation began
    cutoff,                \* wait-for-deployment: the deadline
    pods,                  \* wait-for-deployment: data['items'] of the poll that ended the wait
    pc,                    \* position inside the command
    version,               \* VERSION argument (character codes)
    release,               \* RELEASE argument (character codes)
    ratio,                 \* RATIO argument of switch-deployment (character codes)
    replicas_arg,          \* REPLICAS argument of scale-deployment
    execute,               \* the --execute flag
    deployments,           \* data['items'] as returned by kubectl_get
    resources_update,      \* ResourcesUpdate.resources_update
    deployments_to_delete, \* delete-old-deployments: names still to delete
    template_paths,        \* apply: templates still to apply
    change_request_id,     \* id of the last submitted change request
    issued_ids,            \* ids the change authority has handed out
    response_status,       \* status_code of the last response of the change authority
    response_text,         \* text of the last response of the change authority
    events,                \* log lines and external calls, in program order
    exit_code              \* process exit status (meaningful when pc = "exited")

vars == <<command, config_user, application, timeout, interval, now, cutoff, pods,
          pc, version, release, ratio, replicas_arg, execute,
          deployments, resources_update, deployments_to_delete, template_paths,
          change_request_id, issued_ids, response_status, response_text, events,
          exit_code>>

(***************************************************************************)
(* Bounds of the model.                                                    *)
(***************************************************************************)
MaxDeployments == 3   \* longest deployment list the cluster returns
MaxTotal == 2         \* largest number written in a ratio or replica argument
MaxTemplates == 2     \* most templates one apply walks
MaxPods == 2          \* most pods one poll of wait-for-deployment returns
MaxCalls == 3         \* most calls made on one ResourcesUpdate

(***************************************************************************)
(* Strings as sequences of character codes.                                *)
(***************************************************************************)
myapp == <<109, 121, 97, 112, 112>>   \* "myapp"
v2 == <<118, 50>>                     \* "v2"
v3 == <<118, 51>>                     \* "v3"
r40 == <<114, 52, 48>>                \* "r40"
r41 == <<114, 52, 49>>                \* "r41"
r42 == <<114, 52, 50>>                \* "r42"
r9 == <<114, 57>>                     \* "r9"
My == <<77, 121>>                     \* "My"
v2X == <<118, 50, 45, 88>>            \* "v2-X"
r_1 == <<114, 95, 49>>                \* "r_1"
SomeError == <<83, 111, 109, 101, 32, 69, 114, 114, 111, 114>>   \* "Some Error"
BadRequest == <<66, 97, 100, 32, 82, 101, 113, 117, 101, 115, 116>>   \* "Bad Request"

\* '{}-{}-{}'.format(application, version, release)
DeploymentName(app, ver, rel) == app \o <<45>> \o ver \o <<45>> \o rel

\* Python's str < str: first differing character decides, a proper prefix is smaller
RECURSIVE StrLess(_, _)
StrLess(a, b) ==
    IF b = <<>> THEN FALSE
    ELSE IF a = <<>> THEN TRUE
    ELSE IF Head(a) # Head(b) THEN Head(a) < Head(b)
    ELSE StrLess(Tail(a), Tail(b))

\* str(n) for n >= 0
RECURSIVE IntToStr(_)
IntToStr(n) ==
    IF n < 10 THEN <<48 + n>>
    ELSE IntToStr(n \div 10) \o <<48 + (n % 10)>>

\* int(s) for a string of decimal digits
RECURSIVE ParseInt(_)
ParseInt(s) ==
    IF Len(s) = 1 THEN s[1] - 48
    ELSE 10 * ParseInt(SubSeq(s, 1, Len(s) - 1)) + (s[Len(s)] - 48)

\* s.split('/'): the pieces of s between the slashes
RECURSIVE SplitSlash(_, _)
SplitSlash(s, piece) ==
    IF s = <<>> THEN <<piece>>
    ELSE IF Head(s) = 47 THEN <<piece>> \o SplitSlash(Tail(s), <<>>)
    ELSE SplitSlash(Tail(s), Append(piece, Head(s)))

\* target_replicas, total = ratio.split('/'); int(...) of each
ParseRatio(s) ==
    LET parts == SplitSlash(s, <<>>)
    IN [target_replicas |-> ParseInt(parts[1]), total |-> ParseInt(parts[2])]

(***************************************************************************)
(* validate_pattern: re.match of the argument's pattern.                   *)
(***************************************************************************)
IsLower(c) == 97 <= c /\ c <= 122
IsDigit(c) == 48 <= c /\ c <= 57

\* what `$` leaves to match: the string without one trailing newline
BeforeDollar(s) ==
    IF s # <<>> /\ s[Len(s)] = 10 THEN SubSeq(s, 1, Len(s) - 1) ELSE s

\* re.match('^[a-z][a-z0-9-]*$', s)
MatchesApplicationPattern(s) ==
    LET body == BeforeDollar(s)
    IN /\ body # <<>>
       /\ IsLower(body[1])
       /\ \A i \in 2..Len(body) : IsLower(body[i]) \/ IsDigit(body[i]) \/ body[i] = 45

\* re.match('^[a-z0-9][a-z0-9.-]*$', s)
MatchesVersionPattern(s) ==
    LET body == BeforeDollar(s)
    IN /\ body # <<>>
       /\ (IsLower(body[1]) \/ IsDigit(body[1]))
       /\ \A i \in 2..Len(body) :
             IsLower(body[i]) \/ IsDigit(body[i]) \/ body[i] = 45 \/ body[i] = 46

(***************************************************************************)
(* Inputs.                                                                 *)
(***************************************************************************)
Commands == {"switch-deployment", "scale-deployment", "delete-old-deployments",
             "create-deployment", "promote-deployment", "apply-autoscaling", "apply",
             "wait-for-deployment", "get-current-replicas"}

\* config.get('user'): "" stands for an entry that is absent or empty
ConfigUsers == {"", "jdoe"}

Applications == {myapp, My}
Versions == {v2, v2X}
Releases == {r42, r_1}

\* --timeout and --interval of wait-for-deployment, and how long one query
\* of the pods takes, in seconds
Timeouts == {0, 1, 2}
Intervals == {1, 2}
Lags == {0, 1}

\* a pod item: status.phase and the ready flags of status.containerStatuses,
\* <<>> also when the pod has no containerStatuses
Pod(phase, containerStatuses) == [phase |-> phase, containerStatuses |-> containerStatuses]
Phases == {"Running", "Pending"}
ContainerStatusLists == UNION {[1..n -> [ready : BOOLEAN]] : n \in 0..2}
PodLists ==
    UNION {[1..n -> {Pod(ph, cs) : ph \in Phases, cs \in ContainerStatusLists}]
           : n \in 0..MaxPods}
Ratios == {IntToStr(t) \o <<47>> \o IntToStr(n) : t \in 0..MaxTotal, n \in 0..MaxTotal}

\* names of the deployments labelled application=myapp the cluster may hold
ClusterNames == {DeploymentName(myapp, v3, r40), DeploymentName(myapp, v2, r41),
                 DeploymentName(myapp, v2, r42), DeploymentName(myapp, v2, r9)}

\* a deployment item: metadata.name and status.replicas
Deployment(name, current) == [name |-> name, replicas |-> current]

\* the item lists a query may return: distinct names (names are unique in a
\* namespace), in any order, each with any current replica count
DeploymentLists ==
    UNION {{s \in [1..n -> {Deployment(nm, c) : nm \in ClusterNames, c \in 0..1}] :
              \A i, j \in 1..n : i # j => s[i].name # s[j].name}
           : n \in 0..MaxDeployments}

\* HTTP status codes the change authority may answer with
Statuses == {200, 399, 400, 418}

\* response.text, one body per status
ResponseText(status) ==
    CASE status = 418 -> SomeError
      [] status = 400 -> BadRequest
      [] OTHER -> <<>>

\* ids the change authority may assign next: one it has not handed out before
\* (the program never compares ids, so new ids are drawn in increasing order)
RECURSIVE MaxOf(_)
MaxOf(S) ==
    IF S = {} THEN 0
    ELSE LET x == CHOOSE y \in S : TRUE
             m == MaxOf(S \ {x})
         IN IF x > m THEN x ELSE m

FreshIds(issued) == {MaxOf(issued) + 1, MaxOf(issued) + 2}

\* the STAGE argument of promote-deployment
Stages == {"production"}

\* what a rendered template of apply may hold
TemplateKinds == {"kubernetes", "cloudformation", "cloudformation-no-stackname",
                  "other-dict", "not-dict"}

\* the templates apply may find: one file, or the .yaml files of a directory
TemplateLists == UNION {[1..n -> TemplateKinds] : n \in 0..MaxTemplates}

(***************************************************************************)
(* Events: what the invocation prints and which collaborators it calls.    *)
(***************************************************************************)
Event(kind, method, path, name, num, msg, body, json, response_id) ==
    [kind |-> kind, method |-> method, path |-> path, name |-> name,
     num |-> num, msg |-> msg, body |-> body, json |-> json,
     response_id |-> response_id, headers |-> {}]

\* clickclick.info(msg.format(name, num))
Info(msg, name, num) == Event("info", "", "", name, num, msg, "none", <<>>, 0)
\* clickclick.error(msg.format(name, num))
Error(msg, name, num) == Event("error", "", "", name, num, msg, "none", <<>>, 0)
\* print(change_request_id)
Output(id) == Event("print", "", "", <<>>, id, "change_request_id", "none", <<>>, 0)
\* request(): a header that is sent whoever the user is
OnBehalfAlways(user) == TRUE

\* request(): `if config.get('user'):`
UserConfigured(user) == user # ""

\* request(): the headers of every call of the change authority
RequestHeaders(user) ==
    {<<"Authorization", "Bearer mytok">>} \cup
    (IF UserConfigured(user) THEN {<<"X-On-Behalf-Of", user>>} ELSE {})

\* subprocess.check_call(['zkubectl', 'login', arg])
LoginCall == Event("login", "", "", <<>>, 0, "", "none", <<>>, 0)
\* subprocess.check_output(['zkubectl', 'get', ..., 'deployments', '-l', 'application=...'])
GetDeploymentsCall == Event("kubectl_get", "", "deployments", <<>>, 0, "", "none", <<>>, 0)
\* method(url, headers=headers, timeout=DEFAULT_HTTP_TIMEOUT, **kwargs): the call
\* (id is the change request the path names, 0 for none) and
\* response.json()['id'] when the caller reads it (0 when it does not)
HttpCall(method, path, name, id, body, json, response_id) ==
    [Event("request", method, path, name, id, "", body, json, response_id)
        EXCEPT !.headers = RequestHeaders(config_user)]
\* error('Server returned HTTP error {} for {}:\n{}'.format(status_code, url, text))
ServerError(status, path, text) ==
    [Error("Server returned HTTP error {} for {}:\n{}", text, status)
        EXCEPT !.path = path]
\* subprocess.check_output(['zkubectl', 'get', ..., 'pods', '-l', 'application=...,version=...,release=...'])
GetPodsCall == Event("kubectl_get", "", "pods", <<>>, 0, "", "none", <<>>, 0)
\* info('Waiting up to {:.0f} more secs for deployment {} ({}/{} pods ready)..')
WaitingInfo(remaining, name, pods_ready, pods_len) ==
    [Info("Waiting up to {:.0f} more secs for deployment {} ({}/{} pods ready)..",
          name, pods_ready)
        EXCEPT !.json = <<remaining, pods_len>>]
\* print(replicas) of get-current-replicas
OutputReplicas(replicas) == Event("print", "", "", <<>>, replicas, "replicas", "none", <<>>, 0)
\* click's report of a BadParameter raised by validate_pattern
UsageError(value) ==
    Error("Error: Invalid value: does not match regular expression pattern", value, 0)

\* the paths the commands format
ResourcesPath == "/kubernetes-clusters/{}/namespaces/{}/resources"
DeploymentPath == "/kubernetes-clusters/{}/namespaces/{}/deployments/{}"
StackPath == "/aws-accounts/{}/regions/{}/cloudformation-stacks/{}"
ApprovalsPath == "/change-requests/{}/approvals"
ExecutePath == "/change-requests/{}/execute"

\* a request() that returns whatever the status is
StatusIgnored(status) == TRUE

\* a request() that lets 400 pass
StatusOkThrough400(status) == 200 <= status /\ status <= 400

\* request(): the test on response.status_code
StatusOk(status) == 200 <= status /\ status < 400

(***************************************************************************)
(* ResourcesUpdate.                                                        *)
(***************************************************************************)
\* a builder that appends the replica entry twice
set_number_of_replicas_twice(updates, name, replicas) ==
    LET entry == [name |-> name, kind |-> "deployments",
                  operations |-> <<[op |-> "replace", path |-> <<"/spec/replicas">>,
                                    value |-> replicas]>>]
    IN updates \o <<entry, entry>>

\* a builder that keeps one replica entry per name: a second call for a name
\* overwrites the entry of the first
set_number_of_replicas_merging(updates, name, replicas) ==
    LET entry == [name |-> name, kind |-> "deployments",
                  operations |-> <<[op |-> "replace", path |-> <<"/spec/replicas">>,
                                    value |-> replicas]>>]
        same == {i \in 1..Len(updates) :
                    /\ updates[i].name = name
                    /\ updates[i].operations[1].path = <<"/spec/replicas">>}
    IN IF same = {} THEN Append(updates, entry)
       ELSE [i \in 1..Len(updates) |-> IF i \in same THEN entry ELSE updates[i]]

\* a builder that writes zero replicas whatever it is asked for
set_zero_replicas(updates, name, replicas) ==
    Append(updates,
           [name |-> name, kind |-> "deployments",
            operations |-> <<[op |-> "replace", path |-> <<"/spec/replicas">>,
                              value |-> 0]>>])

set_number_of_replicas(updates, name, replicas) ==
    Append(updates,
           [name |-> name, kind |-> "deployments",
            operations |-> <<[op |-> "replace", path |-> <<"/spec/replicas">>,
                              value |-> replicas]>>])

set_label(updates, name, label_key, label_value) ==
    Append(updates,
           [name |-> name, kind |-> "deployments",
            operations |-> <<[op |-> "replace",
                              path |-> <<"/spec/template/metadata/labels/", label_key>>,
                              value |-> label_value]>>])

\* ResourcesUpdate.to_dict()
to_dict(updates) == [resources_update |-> updates]

(***************************************************************************)
(* sorted(deployments, key=lambda d: d['metadata']['name'], reverse=True)  *)
(***************************************************************************)
RECURSIVE InsertByNameDesc(_, _)
InsertByNameDesc(d, s) ==
    IF s = <<>> THEN <<d>>
    ELSE IF StrLess(Head(s).name, d.name) THEN <<d>> \o s
    ELSE <<Head(s)>> \o InsertByNameDesc(d, Tail(s))

RECURSIVE InsertByNameAsc(_, _)
InsertByNameAsc(d, s) ==
    IF s = <<>> THEN <<d>>
    ELSE IF StrLess(d.name, Head(s).name) THEN <<d>> \o s
    ELSE <<Head(s)>> \o InsertByNameAsc(d, Tail(s))

RECURSIVE SortAsc(_, _)
SortAsc(s, acc) ==
    IF s = <<>> THEN acc ELSE SortAsc(Tail(s), InsertByNameAsc(Head(s), acc))

RECURSIVE SortDesc(_, _)
SortDesc(s, acc) ==
    IF s = <<>> THEN acc ELSE SortDesc(Tail(s), InsertByNameDesc(Head(s), acc))

\* a sort that forgot reverse=True
SortedAscending(items) == SortAsc(items, <<>>)

SortedByNameDesc(items) == SortDesc(items, <<>>)

(***************************************************************************)
(* switch-deployment: the replica plan.                                    *)
(***************************************************************************)
TargetDeploymentName == DeploymentName(application, version, release)

\* a switch that goes on without looking for the target
ExistsAnyway(items, target) == TRUE

\* the loop that sets target_deployment_exists
TargetDeploymentExists(items, target) ==
    \E i \in 1..Len(items) : items[i].name = target

\* a remainder that forgets what the target takes
RemainingIsTotal(total, target_replicas) == total

\* remaining_replicas = total - target_replicas
InitialRemaining(total, target_replicas) == total - target_replicas

\* a walk that gives every deployment what the target gets
TargetReplicasForAll(name, target, target_replicas, remaining) == target_replicas

\* the replicas of one deployment of the walk
SwitchReplicas(name, target, target_replicas, remaining) ==
    IF name = target THEN target_replicas ELSE remaining

\* a walk that never sets remaining_replicas to 0
RemainingKept(name, target, remaining) == remaining

\* remaining_replicas after one deployment of the walk
SwitchRemaining(name, target, remaining) ==
    IF name = target THEN remaining ELSE 0

\* an iteration that leaves out a deployment already at its assigned count
SwitchStepDiffing(st, deployment, target, target_replicas) ==
    LET deployment_name == deployment.name
        replicas == SwitchReplicas(deployment_name, target, target_replicas,
                                   st.remaining_replicas)
    IN [remaining_replicas |->
            SwitchRemaining(deployment_name, target, st.remaining_replicas),
        log |-> Append(st.log, Info("Scaling deployment {} to {} replicas..",
                                    deployment_name, replicas)),
        resources_update |->
            IF replicas = deployment.replicas THEN st.resources_update
            ELSE set_number_of_replicas(st.resources_update, deployment_name,
                                        replicas)]

\* one iteration of the loop: replicas, the info line, the patch entry
SwitchStep(st, deployment, target, target_replicas) ==
    LET deployment_name == deployment.name
        replicas == SwitchReplicas(deployment_name, target, target_replicas,
                                   st.remaining_replicas)
    IN [remaining_replicas |->
            SwitchRemaining(deployment_name, target, st.remaining_replicas),
        log |-> Append(st.log, Info("Scaling deployment {} to {} replicas..",
                                    deployment_name, replicas)),
        resources_update |->
            set_number_of_replicas(st.resources_update, deployment_name, replicas)]

RECURSIVE SwitchLoop(_, _, _, _)
SwitchLoop(sorted, st, target, target_replicas) ==
    IF sorted = <<>> THEN st
    ELSE SwitchLoop(Tail(sorted), SwitchStep(st, Head(sorted), target, target_replicas),
                    target, target_replicas)

\* the whole plan of one switch
SwitchPlan(items, target, target_replicas, total) ==
    SwitchLoop(SortedByNameDesc(items),
               [remaining_replicas |-> InitialRemaining(total, target_replicas),
                log |-> <<>>, resources_update |-> <<>>],
               target, target_replicas)

(***************************************************************************)
(* delete-old-deployments: the selection.                                  *)
(***************************************************************************)
\* a selection that does not spare the target
RECURSIVE AllNames(_, _)
AllNames(sorted, target) ==
    IF sorted = <<>> THEN <<>>
    ELSE <<Head(sorted).name>> \o AllNames(Tail(sorted), target)

\* the names the loop appends to deployments_to_delete
RECURSIVE NamesToDelete(_, _)
NamesToDelete(sorted, target) ==
    IF sorted = <<>> THEN <<>>
    ELSE IF Head(sorted).name = target THEN NamesToDelete(Tail(sorted), target)
    ELSE <<Head(sorted).name>> \o NamesToDelete(Tail(sorted), target)

\* a delete that goes on without looking for the target
FoundAnyway(sorted, target) == TRUE

\* the loop's deployment_found
DeploymentFound(sorted, target) ==
    \E i \in 1..Len(sorted) : sorted[i].name = target

(***************************************************************************)
(* The invocation.                                                         *)
(***************************************************************************)
\* the arguments of a command that carry callback=validate_pattern
TakesApplication(cmd) == cmd # "apply"
TakesVersionAndRelease(cmd) == cmd \notin {"apply", "get-current-replicas"}
TakesExecute(cmd) == cmd \notin {"wait-for-deployment", "get-current-replicas"}

Init ==
    /\ command \in Commands
    /\ config_user \in ConfigUsers
    /\ pc = "parse"
    /\ application \in (IF TakesApplication(command) THEN Applications ELSE {myapp})
    /\ version \in (IF TakesVersionAndRelease(command) THEN Versions ELSE {v2})
    /\ release \in (IF TakesVersionAndRelease(command) THEN Releases ELSE {r42})
    /\ ratio \in (IF command = "switch-deployment" THEN Ratios ELSE {<<>>})
    /\ replicas_arg \in (IF command = "scale-deployment" THEN 0..MaxTotal ELSE {0})
    /\ execute \in (IF TakesExecute(command) THEN BOOLEAN ELSE {FALSE})
    /\ timeout \in (IF command = "wait-for-deployment" THEN Timeouts ELSE {0})
    /\ interval \in (IF command = "wait-for-deployment" THEN Intervals ELSE {1})
    /\ now = 0
    /\ cutoff = 0
    /\ pods = <<>>
    /\ response_text = <<>>
    /\ deployments = <<>>
    /\ resources_update = <<>>
    /\ deployments_to_delete = <<>>
    /\ template_paths = <<>>
    /\ change_request_id = 0
    /\ issued_ids = {}
    /\ response_status = 0
    /\ events = <<>>
    /\ exit_code = 0

\* a command that approves and executes whether or not --execute was passed
AlwaysExecutes(flag) == TRUE

\* `if execute:` after the submit
RunsApproveAndExecute(flag) == flag

\* a deletion loop that leaves approve_and_execute for later and goes on
\* with the next DELETE
next_deletion_first == "delete"

\* an approve_and_execute that goes straight to execute()
execute_only == "execute"

\* approve_and_execute() starts with approve()
approve_and_execute == "approve"

\* a request() that sends the call again after an error status
RetryOnError == "submit"

\* a request() that prints the error line and lets the deletion loop go on
ContinueAfterError == "delete"

\* request(): exit(2) after the error line
ExitOnError == "exited"

\* a command that keeps the id of its first change request
FirstChangeRequestId(previous, response_id) ==
    IF previous = 0 THEN response_id ELSE previous

\* change_request_id = response.json()['id']
NewChangeRequestId(previous, response_id) == response_id

\* where a command goes on once one change request is dealt with
NextPc(more) ==
    IF ~more THEN "exited"
    ELSE IF command = "delete-old-deployments" THEN "delete" ELSE "apply"

\* request() followed by the handling of change_request_id that every
\* submitting command repeats: `before` is what the command logs ahead of the
\* call, `more` whether its loop has another round to go
Submit(method, path, name, body, json, before, more) ==
    \E status \in Statuses, id \in FreshIds(issued_ids) :
        LET failed == HttpCall(method, path, name, 0, body, json, 0)
            call == HttpCall(method, path, name, 0, body, json, id)
        IN /\ response_status' = status
           /\ response_text' = ResponseText(status)
           /\ IF ~StatusOk(status)
              THEN /\ events' = events \o before \o
                        <<failed, ServerError(status, path, ResponseText(status))>>
                   /\ pc' = ExitOnError
                   /\ exit_code' = 2
                   /\ UNCHANGED <<change_request_id, issued_ids>>
              ELSE /\ change_request_id' = NewChangeRequestId(change_request_id, id)
                   /\ issued_ids' = issued_ids \cup {id}
                   /\ IF RunsApproveAndExecute(execute)
                      THEN /\ events' = events \o before \o <<call>>
                           /\ pc' = approve_and_execute
                           /\ UNCHANGED exit_code
                      ELSE /\ events' = events \o before \o <<call, Output(id)>>
                           /\ pc' = NextPc(more)
                           /\ exit_code' = 0

\* a parser that validates the application only
ApplicationValid(cmd, app, ver, rel) ==
    ~TakesApplication(cmd) \/ MatchesApplicationPattern(app)

\* click runs validate_pattern on every argument that carries it
ArgumentsValid(cmd, app, ver, rel) ==
    /\ TakesApplication(cmd) => MatchesApplicationPattern(app)
    /\ TakesVersionAndRelease(cmd) =>
          MatchesVersionPattern(ver) /\ MatchesVersionPattern(rel)

\* the first argument, in the order of the decorators, that fails its pattern
FirstInvalid(cmd, app, ver, rel) ==
    IF TakesApplication(cmd) /\ ~MatchesApplicationPattern(app) THEN app
    ELSE IF ~MatchesVersionPattern(ver) THEN ver
    ELSE rel

\* click parses the command line before it invokes the command; a
\* BadParameter ends the invocation with exit status 2
parse_arguments ==
    /\ pc = "parse"
    /\ IF ArgumentsValid(command, application, version, release)
       THEN /\ pc' = "start"
            /\ UNCHANGED <<events, exit_code>>
       ELSE /\ events' = Append(events, UsageError(FirstInvalid(command, application,
                                                                version, release)))
            /\ pc' = "exited"
            /\ exit_code' = 2
    /\ UNCHANGED <<command, config_user, application, timeout, interval, now, cutoff,
                   pods, version, release, ratio, replicas_arg, execute, deployments,
                   resources_update, deployments_to_delete, template_paths,
                   change_request_id, issued_ids, response_status, response_text>>

\* kubectl_login(config), the first call of switch, scale, delete and wait
kubectl_login ==
    /\ pc = "start"
    /\ command \in {"switch-deployment", "scale-deployment", "delete-old-deployments",
                    "wait-for-deployment"}
    /\ events' = Append(events, LoginCall)
    /\ pc' = CASE command = "scale-deployment" -> "run"
                [] command = "wait-for-deployment" -> "wait"
                [] OTHER -> "get"
    /\ UNCHANGED <<command, config_user, application, timeout, interval, now, cutoff,
                   pods, version, release, ratio, replicas_arg, execute, deployments,
                   resources_update, deployments_to_delete, template_paths,
                   change_request_id, issued_ids, response_status, response_text, exit_code>>

\* kubectl_get(namespace, 'deployments', '-l', 'application=...')
kubectl_get ==
    /\ pc = "get"
    /\ \E items \in DeploymentLists : deployments' = items
    /\ events' = Append(events, GetDeploymentsCall)
    /\ pc' = "run"
    /\ UNCHANGED <<command, config_user, application, timeout, interval, now, cutoff,
                   pods, version, release, ratio, replicas_arg, execute,
                   resources_update, deployments_to_delete, template_paths,
                   change_request_id, issued_ids, response_status, response_text, exit_code>>

\* switch-deployment from the existence check to the end of the planning loop
switch_deployment_plan ==
    /\ pc = "run"
    /\ command = "switch-deployment"
    /\ LET r == ParseRatio(ratio)
           target_deployment_name == TargetDeploymentName
       IN IF ~TargetDeploymentExists(deployments, target_deployment_name)
          THEN /\ events' = Append(events, Error("Deployment {} does not exist!",
                                                 target_deployment_name, 0))
               /\ pc' = "exited"
               /\ exit_code' = 1
               /\ UNCHANGED resources_update
          ELSE LET st == SwitchPlan(deployments, target_deployment_name,
                                    r.target_replicas, r.total)
               IN /\ resources_update' = st.resources_update
                  /\ events' = events \o st.log
                  /\ pc' = "submit"
                  /\ UNCHANGED exit_code
    /\ UNCHANGED <<command, config_user, application, timeout, interval, now, cutoff,
                   pods, version, release, ratio, replicas_arg, execute, deployments,
                   deployments_to_delete, template_paths, change_request_id,
                   issued_ids, response_status, response_text>>

\* switch-deployment: the PATCH of the plan
switch_deployment_submit ==
    /\ pc = "submit"
    /\ command = "switch-deployment"
    /\ Submit("PATCH", ResourcesPath, <<>>, "resources_update", resources_update,
              <<>>, FALSE)
    /\ UNCHANGED <<command, config_user, application, timeout, interval, now, cutoff,
                   pods, version, release, ratio, replicas_arg, execute, deployments,
                   resources_update, deployments_to_delete, template_paths>>

\* scale-deployment after the login
scale_deployment ==
    /\ pc = "run"
    /\ command = "scale-deployment"
    /\ LET deployment_name == TargetDeploymentName
           updates == set_number_of_replicas(<<>>, deployment_name, replicas_arg)
       IN /\ resources_update' = updates
          /\ Submit("PATCH", ResourcesPath, <<>>, "resources_update", updates,
                    <<Info("Scaling deployment {} to {} replicas..",
                           deployment_name, replicas_arg)>>, FALSE)
    /\ UNCHANGED <<command, config_user, application, timeout, interval, now, cutoff,
                   pods, version, release, ratio, replicas_arg, execute, deployments,
                   deployments_to_delete, template_paths>>

\* delete-old-deployments: the selection loop and the check of deployment_found;
\* click turns click.Abort into exit status 1
delete_old_deployments_select ==
    /\ pc = "run"
    /\ command = "delete-old-deployments"
    /\ LET target_deployment_name == TargetDeploymentName
           sorted == SortedByNameDesc(deployments)
           to_delete == NamesToDelete(sorted, target_deployment_name)
       IN /\ deployments_to_delete' = to_delete
          /\ IF ~DeploymentFound(sorted, target_deployment_name)
             THEN /\ events' = Append(events, Error("Deployment {} was not found.",
                                                    target_deployment_name, 0))
                  /\ pc' = "exited"
                  /\ exit_code' = 1
             ELSE /\ pc' = NextPc(to_delete # <<>>)
                  /\ exit_code' = 0
                  /\ UNCHANGED events
    /\ UNCHANGED <<command, config_user, application, timeout, interval, now, cutoff,
                   pods, version, release, ratio, replicas_arg, execute, deployments,
                   resources_update, template_paths, change_request_id, issued_ids,
                   response_status, response_text>>

\* delete-old-deployments: one round of the deletion loop, up to the print
delete_old_deployments_delete ==
    /\ pc = "delete"
    /\ command = "delete-old-deployments"
    /\ deployments_to_delete # <<>>
    /\ LET deployment_name == Head(deployments_to_delete)
       IN /\ deployments_to_delete' = Tail(deployments_to_delete)
          /\ Submit("DELETE", DeploymentPath, deployment_name, "none", <<>>,
                    <<Info("Deleting deployment {}..", deployment_name, 0)>>,
                    Tail(deployments_to_delete) # <<>>)
    /\ UNCHANGED <<command, config_user, application, timeout, interval, now, cutoff,
                   pods, version, release, ratio, replicas_arg, execute, deployments,
                   resources_update, template_paths>>

\* create-deployment
create_deployment ==
    /\ pc = "start"
    /\ command = "create-deployment"
    /\ Submit("POST", ResourcesPath, <<>>, "manifest", <<>>, <<>>, FALSE)
    /\ UNCHANGED <<command, config_user, application, timeout, interval, now, cutoff,
                   pods, version, release, ratio, replicas_arg, execute, deployments,
                   resources_update, deployments_to_delete, template_paths>>

\* apply-autoscaling
apply_autoscaling ==
    /\ pc = "start"
    /\ command = "apply-autoscaling"
    /\ Submit("POST", ResourcesPath, <<>>, "manifest", <<>>, <<>>, FALSE)
    /\ UNCHANGED <<command, config_user, application, timeout, interval, now, cutoff,
                   pods, version, release, ratio, replicas_arg, execute, deployments,
                   resources_update, deployments_to_delete, template_paths>>

\* promote-deployment
promote_deployment ==
    /\ pc = "start"
    /\ command = "promote-deployment"
    /\ \E stage \in Stages :
          LET deployment_name == TargetDeploymentName
              updates == set_label(<<>>, deployment_name, "stage", stage)
          IN /\ resources_update' = updates
             /\ Submit("PATCH", ResourcesPath, <<>>, "resources_update", updates,
                       <<Info("Promoting deployment {} to {} stage..",
                              deployment_name, 0)>>, FALSE)
    /\ UNCHANGED <<command, config_user, application, timeout, interval, now, cutoff,
                   pods, version, release, ratio, replicas_arg, execute, deployments,
                   deployments_to_delete, template_paths>>

\* apply: the list of template paths
apply_list ==
    /\ pc = "start"
    /\ command = "apply"
    /\ \E paths \in TemplateLists :
          /\ template_paths' = paths
          /\ pc' = NextPc(paths # <<>>)
    /\ exit_code' = 0
    /\ UNCHANGED <<command, config_user, application, timeout, interval, now, cutoff,
                   pods, version, release, ratio, replicas_arg, execute, deployments,
                   resources_update, deployments_to_delete, change_request_id,
                   issued_ids, response_status, response_text, events>>

\* apply: what click.Abort leaves behind
Abort(lines) ==
    /\ events' = events \o lines
    /\ pc' = "exited"
    /\ exit_code' = 1
    /\ UNCHANGED <<change_request_id, issued_ids, response_status, response_text>>

\* apply: one round of the loop over the template paths
apply_template ==
    /\ pc = "apply"
    /\ command = "apply"
    /\ LET data == Head(template_paths)
           more == Tail(template_paths) # <<>>
       IN /\ template_paths' = Tail(template_paths)
          /\ CASE data = "not-dict" ->
                    Abort(<<Error("Invalid YAML contents in {}", <<>>, 0)>>)
               [] data = "kubernetes" ->
                    Submit("POST", ResourcesPath, <<>>, "manifest", <<>>,
                           <<Info("Applying Kubernetes manifest {}..", <<>>, 0)>>, more)
               [] data = "cloudformation" ->
                    Submit("PUT", StackPath, <<>>, "manifest", <<>>,
                           <<Info("Applying Cloud Formation template {}..", <<>>, 0)>>,
                           more)
               [] data = "cloudformation-no-stackname" ->
                    Abort(<<Info("Applying Cloud Formation template {}..", <<>>, 0),
                            Error("Cloud Formation template requires Metadata/StackName property",
                                  <<>>, 0)>>)
               [] OTHER ->
                    Abort(<<Error("Neither a Kubernetes manifest nor a Cloud Formation template: {}",
                                  <<>>, 0)>>)
    /\ UNCHANGED <<command, config_user, application, timeout, interval, now, cutoff,
                   pods, version, release, ratio, replicas_arg, execute, deployments,
                   resources_update, deployments_to_delete>>

\* approve(config, change_request_id), the first half of approve_and_execute
approve ==
    /\ pc = "approve"
    /\ \E status \in Statuses :
          LET call == HttpCall("POST", ApprovalsPath, <<>>, change_request_id,
                               "empty", <<>>, 0)
          IN /\ response_status' = status
             /\ response_text' = ResponseText(status)
             /\ IF ~StatusOk(status)
                THEN /\ events' = events \o
                          <<call, ServerError(status, ApprovalsPath, ResponseText(status))>>
                     /\ pc' = ExitOnError
                     /\ exit_code' = 2
                ELSE /\ events' = Append(events, call)
                     /\ pc' = "execute"
                     /\ UNCHANGED exit_code
    /\ UNCHANGED <<command, config_user, application, timeout, interval, now, cutoff,
                   pods, version, release, ratio, replicas_arg, execute, deployments,
                   resources_update, deployments_to_delete, template_paths,
                   change_request_id, issued_ids>>

\* execute(config, change_request_id), the second half of approve_and_execute
Execute ==
    /\ pc = "execute"
    /\ \E status \in Statuses :
          LET call == HttpCall("POST", ExecutePath, <<>>, change_request_id,
                               "none", <<>>, 0)
          IN /\ response_status' = status
             /\ response_text' = ResponseText(status)
             /\ IF ~StatusOk(status)
                THEN /\ events' = events \o
                          <<call, ServerError(status, ExecutePath, ResponseText(status))>>
                     /\ pc' = ExitOnError
                     /\ exit_code' = 2
                ELSE /\ events' = Append(events, call)
                     /\ pc' = NextPc(IF command = "apply" THEN template_paths # <<>>
                                     ELSE deployments_to_delete # <<>>)
                     /\ exit_code' = 0
    /\ UNCHANGED <<command, config_user, application, timeout, interval, now, cutoff,
                   pods, version, release, ratio, replicas_arg, execute, deployments,
                   resources_update, deployments_to_delete, template_paths,
                   change_request_id, issued_ids>>

\* a pod counted as ready as soon as it runs
PodRunning(pod) == pod.phase = "Running"

\* wait_for_deployment: the test that counts a pod into pods_ready
PodReady(pod) ==
    /\ pod.phase = "Running"
    /\ \A i \in 1..Len(pod.containerStatuses) : pod.containerStatuses[i].ready

\* wait_for_deployment: pods_ready after the loop over the pods
PodsReady(items) == Cardinality({i \in 1..Len(items) : PodReady(items[i])})

\* a wait that is over as soon as no pod is unready
NoneUnready(items, pods_ready) == pods_ready >= Len(items)

\* wait_for_deployment: `if pods and pods_ready >= len(pods):`
AllReady(items, pods_ready) == items # <<>> /\ pods_ready >= Len(items)

\* the polls that end the wait: the item lists that pass the test
ReadyPodLists == {items \in PodLists : AllReady(items, PodsReady(items))}

\* the polls that do not: pods_ready and len(pods) of the item lists that fail
\* the test, which is all the Waiting line and the loop keep of them
UnreadyCounts ==
    {[pods_ready |-> PodsReady(items), len_pods |-> Len(items)] :
        items \in {l \in PodLists : ~AllReady(l, PodsReady(l))}}

\* a loop that has no deadline
LoopForever(t, deadline) == TRUE

\* a loop that still runs at the deadline itself
LoopThroughCutoff(t, deadline) == t <= deadline

\* wait_for_deployment: `while time.time() < cutoff:`
LoopCondition(t, deadline) == t < deadline

\* wait-for-deployment: cutoff = time.time() + timeout
wait_for_deployment_start ==
    /\ pc = "wait"
    /\ command = "wait-for-deployment"
    /\ cutoff' = now + timeout
    /\ pc' = "poll"
    /\ UNCHANGED <<command, config_user, application, timeout, interval, now,
                   pods, version, release, ratio, replicas_arg, execute, deployments,
                   resources_update, deployments_to_delete, template_paths,
                   change_request_id, issued_ids, response_status, response_text,
                   events, exit_code>>

\* wait-for-deployment: one round of the while loop, from the query of the pods
\* to the return or the end of the sleep; `pods` keeps the items of the round
\* that returned
wait_for_deployment_poll ==
    /\ pc = "poll"
    /\ command = "wait-for-deployment"
    /\ LoopCondition(now, cutoff)
    /\ \E lag \in Lags :
          LET queried == now + lag
          IN \/ \E items \in ReadyPodLists :
                   /\ pods' = items
                   /\ events' = Append(events, GetPodsCall)
                   /\ now' = queried
                   /\ pc' = "exited"
                   /\ exit_code' = 0
             \/ \E counts \in UnreadyCounts :
                   /\ events' = events \o
                        <<GetPodsCall,
                          WaitingInfo(cutoff - queried, TargetDeploymentName,
                                      counts.pods_ready, counts.len_pods)>>
                   /\ now' = queried + interval
                   /\ UNCHANGED <<pods, pc, exit_code>>
    /\ UNCHANGED <<command, config_user, application, timeout, interval, cutoff,
                   version, release, ratio, replicas_arg, execute, deployments,
                   resources_update, deployments_to_delete, template_paths,
                   change_request_id, issued_ids, response_status, response_text>>

\* wait-for-deployment: the loop is left at the cutoff, raise click.Abort()
wait_for_deployment_abort ==
    /\ pc = "poll"
    /\ command = "wait-for-deployment"
    /\ ~LoopCondition(now, cutoff)
    /\ pc' = "exited"
    /\ exit_code' = 1
    /\ UNCHANGED <<command, config_user, application, timeout, interval, now, cutoff,
                   pods, version, release, ratio, replicas_arg, execute, deployments,
                   resources_update, deployments_to_delete, template_paths,
                   change_request_id, issued_ids, response_status, response_text,
                   events>>

\* sum of deployment.get('status', {}).get('replicas', 0)
RECURSIVE SumReplicas(_)
SumReplicas(items) ==
    IF items = <<>> THEN 0 ELSE Head(items).replicas + SumReplicas(Tail(items))

\* get-current-replicas: the query of the deployments and the print
get_current_replicas ==
    /\ pc = "start"
    /\ command = "get-current-replicas"
    /\ \E items \in DeploymentLists :
          /\ deployments' = items
          /\ events' = events \o <<GetDeploymentsCall, OutputReplicas(SumReplicas(items))>>
    /\ pc' = "exited"
    /\ exit_code' = 0
    /\ UNCHANGED <<command, config_user, application, timeout, interval, now, cutoff,
                   pods, version, release, ratio, replicas_arg, execute,
                   resources_update, deployments_to_delete, template_paths,
                   change_request_id, issued_ids, response_status, response_text>>

Next ==
    \/ parse_arguments
    \/ kubectl_login
    \/ wait_for_deployment_start
    \/ wait_for_deployment_poll
    \/ wait_for_deployment_abort
    \/ get_current_replicas
    \/ kubectl_get
    \/ switch_deployment_plan
    \/ switch_deployment_submit
    \/ scale_deployment
    \/ delete_old_deployments_select
    \/ delete_old_deployments_delete
    \/ create_deployment
    \/ apply_autoscaling
    \/ promote_deployment
    \/ apply_list
    \/ apply_template
    \/ approve
    \/ Execute

Spec == Init /\ [][Next]_vars

(***************************************************************************)
(* wait-for-deployment alone, as a process that keeps running: every step  *)
(* of the command that can be taken is taken (the queries return and       *)
(* time.sleep ends).                                                       *)
(***************************************************************************)
WaitInit == Init /\ command = "wait-for-deployment"

WaitNext ==
    \/ parse_arguments
    \/ kubectl_login
    \/ wait_for_deployment_start
    \/ wait_for_deployment_poll
    \/ wait_for_deployment_abort

WaitSpec == WaitInit /\ [][WaitNext]_vars /\ WF_vars(WaitNext)

(***************************************************************************)
(* ResourcesUpdate on its own: a caller that creates one and makes up to   *)
(* MaxCalls calls of its two setters, in any order and with any arguments; *)
(* `events` records the calls.                                             *)
(***************************************************************************)
BuilderNames == {DeploymentName(myapp, v2, r41), DeploymentName(myapp, v2, r42)}
LabelKeys == {"stage"}
LabelValues == {"production", "staging"}

\* resources_update.set_number_of_replicas(name, replicas)
SetReplicasCall(name, replicas) ==
    Event("set_number_of_replicas", "", "", name, replicas, "", "none", <<>>, 0)
\* resources_update.set_label(name, label_key, label_value)
SetLabelCall(name, label_key, label_value) ==
    Event("set_label", "", "", name, 0, label_value, label_key, <<>>, 0)

\* resources_update = ResourcesUpdate()
BuilderInit ==
    /\ command = "ResourcesUpdate"
    /\ config_user = ""
    /\ pc = "build"
    /\ application = myapp
    /\ version = v2
    /\ release = r42
    /\ ratio = <<>>
    /\ replicas_arg = 0
    /\ execute = FALSE
    /\ timeout = 0
    /\ interval = 1
    /\ now = 0
    /\ cutoff = 0
    /\ pods = <<>>
    /\ deployments = <<>>
    /\ resources_update = <<>>
    /\ deployments_to_delete = <<>>
    /\ template_paths = <<>>
    /\ change_request_id = 0
    /\ issued_ids = {}
    /\ response_status = 0
    /\ response_text = <<>>
    /\ events = <<>>
    /\ exit_code = 0

call_set_number_of_replicas ==
    /\ pc = "build"
    /\ Len(events) < MaxCalls
    /\ \E name \in BuilderNames, replicas \in 0..MaxTotal :
          /\ resources_update' = set_number_of_replicas(resources_update, name, replicas)
          /\ events' = Append(events, SetReplicasCall(name, replicas))
    /\ UNCHANGED <<command, config_user, application, timeout, interval, now, cutoff,
                   pods, pc, version, release, ratio, replicas_arg, execute, deployments,
                   deployments_to_delete, template_paths, change_request_id, issued_ids,
                   response_status, response_text, exit_code>>

call_set_label ==
    /\ pc = "build"
    /\ Len(events) < MaxCalls
    /\ \E name \in BuilderNames, label_key \in LabelKeys, label_value \in LabelValues :
          /\ resources_update' = set_label(resources_update, name, label_key, label_value)
          /\ events' = Append(events, SetLabelCall(name, label_key, label_value))
    /\ UNCHANGED <<command, config_user, application, timeout, interval, now, cutoff,
                   pods, pc, version, release, ratio, replicas_arg, execute, deployments,
                   deployments_to_delete, template_paths, change_request_id, issued_ids,
                   response_status, response_text, exit_code>>

BuilderNext ==
    \/ call_set_number_of_replicas
    \/ call_set_label

BuilderSpec == BuilderInit /\ [][BuilderNext]_vars

(***************************************************************************)
(* Vocabulary of the properties.                                           *)
(***************************************************************************)
\* the positions of events that are calls of the change authority
Requests == {i \in 1..Len(events) : events[i].kind = "request"}
IsSubmit(e) ==
    e.kind = "request" /\ e.path \in {ResourcesPath, DeploymentPath, StackPath}
IsApprove(e) == e.kind = "request" /\ e.path = ApprovalsPath
IsExecute(e) == e.kind = "request" /\ e.path = ExecutePath

\* the deployments of the application have been queried
DeploymentsQueried == \E i \in 1..Len(events) : events[i] = GetDeploymentsCall

\* switch-deployment has walked the deployments and holds its plan
SwitchPlanned ==
    /\ command = "switch-deployment"
    /\ DeploymentsQueried
    /\ pc # "run"
    /\ ~(pc = "exited" /\ exit_code = 1)

TargetQueried ==
    \E i \in 1..Len(deployments) : deployments[i].name = TargetDeploymentName

PlannedName(i) == resources_update[i].name
PlannedReplicas(i) == resources_update[i].operations[1].value

RECURSIVE PlannedSum(_)
PlannedSum(n) == IF n = 0 THEN 0 ELSE PlannedSum(n - 1) + PlannedReplicas(n)

\* the ratio as the caller wrote it
RatioTarget == ParseRatio(ratio).target_replicas
RatioTotal == ParseRatio(ratio).total

\* the entries of the patch run through the names in strictly descending order
PlannedDescending ==
    \A i, j \in 1..Len(resources_update) :
        i < j => StrLess(PlannedName(j), PlannedName(i))

\* C1 as stated: for every queried set that contains the target and every ratio
\* with 0 <= targetReplicas <= total, the planned replicas sum to total.
C1_SumIsTotalForEverySet ==
    (SwitchPlanned /\ RatioTarget <= RatioTotal)
        => PlannedSum(Len(resources_update)) = RatioTotal

\* C1 amended: for every queried set that contains the target and every ratio
\* with 0 <= targetReplicas <= total, the planned replicas sum to total when the
\* set holds another deployment besides the target, and to targetReplicas when
\* the target is the only deployment.
C1_SumIsTotalUnlessTargetAlone ==
    (SwitchPlanned /\ RatioTarget <= RatioTotal)
        => PlannedSum(Len(resources_update)) =
              (IF \E i \in 1..Len(deployments) :
                      deployments[i].name # TargetDeploymentName
               THEN RatioTotal ELSE RatioTarget)

C1_Witness ==
    /\ SwitchPlanned
    /\ Len(deployments) = 1
    /\ RatioTarget = 1
    /\ RatioTotal = 2
    /\ PlannedSum(Len(resources_update)) = 1

\* C2: a switch over two or more deployments with distinct names, the target
\* among them, and 0 <= targetReplicas <= total plans replica counts whose sum
\* is total.
C2_SumIsTotalAcrossDeployments ==
    (SwitchPlanned /\ Len(deployments) >= 2 /\ RatioTarget <= RatioTotal)
        => PlannedSum(Len(resources_update)) = RatioTotal

C2_Witness ==
    /\ SwitchPlanned
    /\ Len(deployments) = 3
    /\ RatioTarget = 1
    /\ RatioTotal = 2
    /\ PlannedSum(Len(resources_update)) = 2

\* C3: the plan runs through the deployments in descending order of name; the
\* target gets targetReplicas, the first other deployment of that order gets
\* total - targetReplicas and every later other deployment gets 0.
C3_TargetFirstOtherRest ==
    SwitchPlanned =>
        /\ Len(resources_update) = Len(deployments)
        /\ {PlannedName(i) : i \in 1..Len(resources_update)} =
               {deployments[i].name : i \in 1..Len(deployments)}
        /\ PlannedDescending
        /\ \A i \in 1..Len(resources_update) :
              PlannedReplicas(i) =
                  IF PlannedName(i) = TargetDeploymentName THEN RatioTarget
                  ELSE IF \A j \in 1..(i - 1) : PlannedName(j) = TargetDeploymentName
                       THEN RatioTotal - RatioTarget
                       ELSE 0

\* {v3-r40, v2-r41, v2-r42}, target v2-r42, ratio 1/2: v3-r40 -> 1, v2-r42 -> 1, v2-r41 -> 0
C3_Witness ==
    /\ SwitchPlanned
    /\ release = r42
    /\ ratio = <<49, 47, 50>>
    /\ Len(deployments) = 3
    /\ deployments[1].name = DeploymentName(myapp, v3, r40)
    /\ deployments[2].name = DeploymentName(myapp, v2, r41)
    /\ deployments[3].name = DeploymentName(myapp, v2, r42)
    /\ <<PlannedName(1), PlannedName(2), PlannedName(3)>> =
           <<DeploymentName(myapp, v3, r40), DeploymentName(myapp, v2, r42),
             DeploymentName(myapp, v2, r41)>>
    /\ <<PlannedReplicas(1), PlannedReplicas(2), PlannedReplicas(3)>> = <<1, 1, 0>>

\* the "Scaling deployment" lines of the log, in the order they were written
ScalingLines ==
    SelectSeq(events, LAMBDA e : e.kind = "info"
                                 /\ e.msg = "Scaling deployment {} to {} replicas..")

\* C4: the patch of a switch holds exactly one setReplicas entry per queried
\* deployment, in descending order of name, also for a deployment whose
\* assigned value is its current replica count, and the log holds one
\* "Scaling deployment <name> to <replicas> replicas.." line per entry, in the
\* order of the entries.
C4_OneEntryAndLinePerDeployment ==
    SwitchPlanned =>
        /\ Len(resources_update) = Len(deployments)
        /\ \A i \in 1..Len(deployments) :
              \E j \in 1..Len(resources_update) :
                  /\ PlannedName(j) = deployments[i].name
                  /\ resources_update[j].kind = "deployments"
                  /\ Len(resources_update[j].operations) = 1
                  /\ resources_update[j].operations[1].op = "replace"
                  /\ resources_update[j].operations[1].path = <<"/spec/replicas">>
        /\ PlannedDescending
        /\ Len(ScalingLines) = Len(resources_update)
        /\ \A i \in 1..Len(resources_update) :
              /\ ScalingLines[i].name = PlannedName(i)
              /\ ScalingLines[i].num = PlannedReplicas(i)

\* three deployments, every one of them already at the replica count it is assigned
C4_Witness ==
    /\ SwitchPlanned
    /\ Len(deployments) = 3
    /\ Len(resources_update) = 3
    /\ \A i \in 1..3 : \E j \in 1..3 :
          /\ PlannedName(j) = deployments[i].name
          /\ PlannedReplicas(j) = deployments[i].replicas

\* the last call of the change authority so far
LastRequest == CHOOSE i \in Requests : \A j \in Requests : j <= i

\* the status of a response that request() must not return from
ErrorStatus(status) == status < 200 \/ status > 399

\* C5: a switch whose target is not among the queried deployments ends with exit
\* status 1 and a message naming the missing deployment; no patch is built and
\* no call of the change authority (submit, approve, execute) is made.
C5_SwitchWithoutTargetFails ==
    (command = "switch-deployment" /\ DeploymentsQueried /\ ~TargetQueried)
        => /\ resources_update = <<>>
           /\ Requests = {}
           /\ pc # "run" =>
                 /\ pc = "exited"
                 /\ exit_code = 1
                 /\ events[Len(events)] =
                        Error("Deployment {} does not exist!", TargetDeploymentName, 0)

C5_Witness ==
    /\ command = "switch-deployment"
    /\ Len(deployments) = 3
    /\ ~TargetQueried
    /\ pc = "exited"
    /\ exit_code = 1

\* C6: a delete-old-deployments whose target is not among the queried
\* deployments ends with exit status 1 and makes no call of the change
\* authority at all: no DELETE, no approve, no execute.
C6_DeleteWithoutTargetAborts ==
    (command = "delete-old-deployments" /\ DeploymentsQueried /\ ~TargetQueried)
        => /\ Requests = {}
           /\ pc # "run" =>
                 /\ pc = "exited"
                 /\ exit_code = 1
                 /\ events[Len(events)] =
                        Error("Deployment {} was not found.", TargetDeploymentName, 0)

C6_Witness ==
    /\ command = "delete-old-deployments"
    /\ Len(deployments) = 3
    /\ ~TargetQueried
    /\ pc = "exited"
    /\ exit_code = 1

\* the DELETE calls so far
Deletes == {i \in Requests : events[i].method = "DELETE"}

\* C7: with the target among the queried deployments, delete-old-deployments
\* issues DELETE calls only for queried deployments other than the target, one
\* deployment per call, in descending order of name without skipping one, each
\* call right after its "Deleting deployment <name>.." line; a run that ends
\* with exit status 0 has issued one for every deployment other than the target.
C7_DeletesOthersDescending ==
    (command = "delete-old-deployments" /\ DeploymentsQueried /\ pc # "run"
         /\ TargetQueried)
        => /\ \A i \in Requests : IsSubmit(events[i]) => i \in Deletes
           /\ \A i \in Deletes :
                 /\ events[i].path = DeploymentPath
                 /\ events[i].body = "none"
                 /\ events[i].name # TargetDeploymentName
                 /\ \E k \in 1..Len(deployments) : deployments[k].name = events[i].name
                 /\ i > 1
                 /\ events[i - 1] = Info("Deleting deployment {}..", events[i].name, 0)
                 /\ \A j \in Deletes :
                       i < j => StrLess(events[j].name, events[i].name)
                 /\ \A k \in 1..Len(deployments) :
                       (deployments[k].name # TargetDeploymentName
                            /\ StrLess(events[i].name, deployments[k].name))
                           => \E j \in Deletes :
                                 j < i /\ events[j].name = deployments[k].name
           /\ (pc = "exited" /\ exit_code = 0) =>
                 \A k \in 1..Len(deployments) :
                     deployments[k].name # TargetDeploymentName
                         => \E i \in Deletes : events[i].name = deployments[k].name

\* {v2-r41, v2-r42, v2-r9} with target v2-r42: v2-r9 is deleted, then v2-r41
C7_Witness ==
    /\ command = "delete-old-deployments"
    /\ release = r42
    /\ pc = "exited"
    /\ exit_code = 0
    /\ Len(deployments) = 3
    /\ deployments[1].name = DeploymentName(myapp, v2, r41)
    /\ deployments[2].name = DeploymentName(myapp, v2, r42)
    /\ deployments[3].name = DeploymentName(myapp, v2, r9)
    /\ LET deleted == SelectSeq(events, LAMBDA e : e.method = "DELETE")
       IN /\ Len(deleted) = 2
          /\ deleted[1].name = DeploymentName(myapp, v2, r9)
          /\ deleted[2].name = DeploymentName(myapp, v2, r41)

\* C8: an execute call comes right after the approve call of the same change
\* request, and an approve call answered with an error status ends the
\* invocation (exit status 2) with no execute call issued.
C8_ApproveThenExecute ==
    /\ \A i \in Requests :
          IsExecute(events[i]) =>
              /\ i > 1
              /\ IsApprove(events[i - 1])
              /\ events[i - 1].num = events[i].num
    /\ (Requests # {} /\ IsApprove(events[LastRequest]) /\ ErrorStatus(response_status))
          => /\ pc = "exited"
             /\ exit_code = 2

C8_Witness ==
    /\ Requests # {}
    /\ IsApprove(events[LastRequest])
    /\ response_status = 418
    /\ pc = "exited"
    /\ \A i \in Requests : ~IsExecute(events[i])

\* C9: in every invocation of a submitting command, an approve call names a
\* change request that an earlier submit call returned, an execute call names
\* one that an earlier approve call named, and no change request is approved
\* after its execute call or submitted after its approve call.
C9_SubmitApproveExecuteInOrder ==
    \A i \in Requests :
        /\ IsApprove(events[i]) =>
              /\ \E j \in Requests :
                    j < i /\ IsSubmit(events[j]) /\ events[j].response_id = events[i].num
              /\ \A j \in Requests :
                    (j > i /\ IsSubmit(events[j]))
                        => events[j].response_id # events[i].num
        /\ IsExecute(events[i]) =>
              /\ \E j \in Requests :
                    j < i /\ IsApprove(events[j]) /\ events[j].num = events[i].num
              /\ \A j \in Requests :
                    (j > i /\ (IsApprove(events[j]) \/ IsSubmit(events[j])))
                        => /\ events[j].num # events[i].num
                           /\ events[j].response_id # events[i].num

\* two deletions, each submitted, approved and executed
C9_Witness ==
    /\ command = "delete-old-deployments"
    /\ pc = "exited"
    /\ exit_code = 0
    /\ Cardinality({i \in Requests : IsExecute(events[i])}) = 2

\* C10: without --execute every successful submit is followed by the print of
\* the id it returned and the invocation issues no approve and no execute call
\* (a command with one change request then ends with exit status 0); with
\* --execute no id is printed and every successful submit is followed by the
\* approve call for the id it returned.
C10_PrintOrApproveAndExecute ==
    /\ ~execute =>
          /\ \A i \in Requests :
                /\ IsSubmit(events[i])
                /\ events[i].response_id # 0 =>
                      /\ i < Len(events)
                      /\ events[i + 1] = Output(events[i].response_id)
                      /\ command \notin {"delete-old-deployments", "apply"}
                            => (pc = "exited" /\ exit_code = 0)
          /\ pc \notin {"approve", "execute"}
    /\ execute =>
          /\ \A i \in 1..Len(events) : events[i].kind # "print"
          /\ \A i \in Requests :
                (IsSubmit(events[i]) /\ events[i].response_id # 0) =>
                    IF i = Len(events) THEN pc = "approve"
                    ELSE /\ IsApprove(events[i + 1])
                         /\ events[i + 1].num = events[i].response_id

C10_Witness ==
    /\ ~execute
    /\ command = "scale-deployment"
    /\ pc = "exited"
    /\ exit_code = 0
    /\ change_request_id # 0
    /\ events[Len(events)] = Output(change_request_id)

\* the error line request() prints for a response it refuses
IsServerError(e) ==
    e.kind = "error" /\ e.msg = "Server returned HTTP error {} for {}:\n{}"

\* C11: once the change authority answers a submit, approve or execute call
\* with a status outside 200..399, the invocation has ended with exit status 2;
\* the refused call is the last call made, and the error stream ends with the
\* line that carries that status and the body of that response; no such line
\* is ever followed by another event.
C11_ErrorStatusEndsWithExit2 ==
    /\ (Requests # {} /\ ErrorStatus(response_status))
          => /\ pc = "exited"
             /\ exit_code = 2
             /\ LastRequest = Len(events) - 1
             /\ IsServerError(events[Len(events)])
             /\ events[Len(events)].num = response_status
             /\ events[Len(events)].name = response_text
             /\ events[Len(events)].path = events[LastRequest].path
    /\ \A i \in 1..Len(events) :
          IsServerError(events[i])
              => /\ i = Len(events)
                 /\ ErrorStatus(events[i].num)
                 /\ events[i].num = response_status

\* test_request_exit_on_error's response (418, 'Some Error') to a submit that
\* --execute would have approved and executed
C11_Witness ==
    /\ command = "create-deployment"
    /\ execute
    /\ response_status = 418
    /\ response_text = SomeError
    /\ Cardinality(Requests) = 1
    /\ exit_code = 2

\* wait-for-deployment has returned from its loop
WaitSucceeded ==
    command = "wait-for-deployment" /\ pc = "exited" /\ exit_code = 0

\* the Waiting lines: one for every poll that did not end the wait
WaitingLines ==
    {i \in 1..Len(events) :
        events[i].kind = "info" /\ events[i].json # <<>> /\ events[i - 1] = GetPodsCall}

\* C12: wait-for-deployment ends with success only right after a query of the
\* pods that returned at least one pod, every pod in phase Running and every
\* container status of every pod ready; a poll that returned no pod, or fewer
\* ready pods than pods, is followed by a Waiting line instead.
C12_SuccessOnlyWhenAllPodsReady ==
    /\ WaitSucceeded
          => /\ events[Len(events)] = GetPodsCall
             /\ Len(pods) >= 1
             /\ \A i \in 1..Len(pods) :
                   /\ pods[i].phase = "Running"
                   /\ \A j \in 1..Len(pods[i].containerStatuses) :
                         pods[i].containerStatuses[j].ready
    /\ \A i \in 1..Len(events) :
          (events[i] = GetPodsCall /\ i < Len(events))
              => /\ i + 1 \in WaitingLines
                 /\ (events[i + 1].json[2] = 0 \/ events[i + 1].num < events[i + 1].json[2])

\* two pods, both Running, one with two ready containers, after a poll that
\* found a pod not yet ready
C12_Witness ==
    /\ WaitSucceeded
    /\ Len(pods) = 2
    /\ Len(pods[1].containerStatuses) = 2
    /\ WaitingLines # {}
    /\ \E i \in WaitingLines : events[i].json[2] = 1 /\ events[i].num = 0

\* no poll so far has returned a pod
AllPollsEmpty ==
    /\ pods = <<>>
    /\ \A i \in WaitingLines : events[i].json[2] = 0

\* wait-for-deployment has left its loop at the cutoff: click.Abort, exit status 1
WaitAborted ==
    command = "wait-for-deployment" /\ pc = "exited" /\ exit_code = 1

\* C13: a wait-for-deployment whose polls have all returned zero pods never
\* ends with success, and from any round of its loop it goes on until a poll
\* returns a pod or the cutoff aborts it with exit status 1.
C13_EmptyPollsLeadToAbort ==
    /\ [](AllPollsEmpty => ~WaitSucceeded)
    /\ ((pc = "poll" /\ AllPollsEmpty) ~> (WaitAborted \/ ~AllPollsEmpty))

\* two polls, both without a pod, then the abort
C13_Witness ==
    /\ WaitAborted
    /\ AllPollsEmpty
    /\ Cardinality(WaitingLines) = 2

\* the keys of the headers of a call
HeaderKeys(e) == {h[1] : h \in e.headers}

\* C14: every call of the change authority carries the Authorization header
\* with the bearer token of the token provider; when a user is configured it
\* carries X-On-Behalf-Of with that user, and when none is configured (or an
\* empty one) it carries no X-On-Behalf-Of header at all.
C14_BearerAlwaysOnBehalfIfUser ==
    \A i \in Requests :
        /\ <<"Authorization", "Bearer mytok">> \in events[i].headers
        /\ config_user # "" =>
              events[i].headers =
                  {<<"Authorization", "Bearer mytok">>, <<"X-On-Behalf-Of", config_user>>}
        /\ config_user = "" => HeaderKeys(events[i]) = {"Authorization"}

\* test_request_headers' user on the submit, approve and execute of one switch
C14_Witness ==
    /\ command = "switch-deployment"
    /\ config_user = "jdoe"
    /\ pc = "exited"
    /\ exit_code = 0
    /\ Cardinality(Requests) = 3
    /\ \A i \in Requests : "X-On-Behalf-Of" \in HeaderKeys(events[i])

\* an identifier the command takes does not match its pattern
Malformed ==
    \/ TakesApplication(command) /\ ~MatchesApplicationPattern(application)
    \/ TakesVersionAndRelease(command) /\ ~MatchesVersionPattern(version)
    \/ TakesVersionAndRelease(command) /\ ~MatchesVersionPattern(release)

\* the calls that leave the machine: cluster login, cluster query, change authority
NetworkCalls ==
    {i \in 1..Len(events) : events[i].kind \in {"login", "kubectl_get", "request"}}

\* C15: an invocation whose application, version or release does not match
\* its pattern makes no cluster login, no cluster query and no call of the
\* change authority; once parsed it has ended with the usage error, exit
\* status 2.
C15_MalformedRejectedBeforeCalls ==
    Malformed
        => /\ NetworkCalls = {}
           /\ pc \in {"parse", "exited"}
           /\ pc = "exited" =>
                 /\ exit_code = 2
                 /\ Len(events) = 1
                 /\ events[1].kind = "error"

\* test_create_deployment_invalid_argument's version 'v2-X'
C15_Witness ==
    /\ command = "create-deployment"
    /\ application = myapp
    /\ version = v2X
    /\ release = r42
    /\ pc = "exited"
    /\ exit_code = 2

\* the queries of the cluster, for deployments or for pods
ClusterQueries == {i \in 1..Len(events) : events[i].kind = "kubectl_get"}

\* C16: every query of the cluster (deployments or pods) comes after a login
\* to the cluster made earlier in the same invocation.
C16_QueryAfterLogin ==
    \A i \in ClusterQueries : \E j \in 1..(i - 1) : events[j] = LoginCall

\* the submit calls so far
Submits == {i \in Requests : IsSubmit(events[i])}

\* no call of the change authority has been refused
EveryCallSucceeded == \A i \in 1..Len(events) : ~IsServerError(events[i])

\* C17: scale-deployment submits at most one call, a PATCH of the resources
\* whose patch holds exactly one entry: the replace of /spec/replicas of the
\* deployment application-version-release by the requested count; it comes
\* right after the Scaling line and is there whenever the command got past
\* its login.
C17_ScaleSubmitsOneEntry ==
    command = "scale-deployment"
        => /\ Cardinality(Submits) <= 1
           /\ pc \notin {"parse", "start", "run"} /\ ~Malformed => Cardinality(Submits) = 1
           /\ \A i \in Submits :
                 /\ events[i].method = "PATCH"
                 /\ events[i].path = ResourcesPath
                 /\ events[i].body = "resources_update"
                 /\ events[i].json =
                        <<[name |-> application \o <<45>> \o version \o <<45>> \o release,
                           kind |-> "deployments",
                           operations |-> <<[op |-> "replace",
                                             path |-> <<"/spec/replicas">>,
                                             value |-> replicas_arg]>>]>>
                 /\ events[i].json = resources_update
                 /\ i > 1
                 /\ events[i - 1].kind = "info"
                 /\ events[i - 1].num = replicas_arg

\* scale-deployment myapp v2 r42 2
C17_Witness ==
    /\ command = "scale-deployment"
    /\ application = myapp
    /\ version = v2
    /\ release = r42
    /\ replicas_arg = 2
    /\ Cardinality(Submits) = 1
    /\ pc = "exited"
    /\ exit_code = 0

\* C18: switch-deployment submits at most once in an invocation, an error
\* response included; a switch that has ended, found its target among the
\* queried deployments and had no call refused has submitted exactly once, a
\* PATCH of the whole plan, and ended with exit status 0.
C18_SwitchSubmitsOnce ==
    command = "switch-deployment"
        => /\ Cardinality(Submits) <= 1
           /\ \A i \in Submits :
                 /\ events[i].method = "PATCH"
                 /\ events[i].path = ResourcesPath
                 /\ events[i].json = resources_update
           /\ (pc = "exited" /\ DeploymentsQueried /\ TargetQueried /\ EveryCallSucceeded)
                 => /\ Cardinality(Submits) = 1
                    /\ exit_code = 0

\* a plan of three entries submitted once and printed
C18_Witness ==
    /\ command = "switch-deployment"
    /\ ~execute
    /\ Len(resources_update) = 3
    /\ Cardinality(Submits) = 1
    /\ pc = "exited"
    /\ exit_code = 0

\* the entries of the JSON body of a call
JsonEntries(e) == {e.json[k] : k \in 1..Len(e.json)}

Built == to_dict(resources_update).resources_update

\* C20: after any sequence of n calls of set_number_of_replicas and set_label
\* on one ResourcesUpdate, to_dict() holds exactly n entries, and the i-th
\* entry is the one the i-th call describes: its name, kind deployments and
\* the single replace operation with that call's path and value. Entries are
\* neither merged nor dropped, whatever earlier entries name the same
\* deployment and path.
C20_BuilderAppendsInCallOrder ==
    command = "ResourcesUpdate"
        => /\ DOMAIN to_dict(resources_update) = {"resources_update"}
           /\ Len(Built) = Len(events)
           /\ \A i \in 1..Len(events) :
                 /\ Built[i].name = events[i].name
                 /\ Built[i].kind = "deployments"
                 /\ Len(Built[i].operations) = 1
                 /\ Built[i].operations[1].op = "replace"
                 /\ IF events[i].kind = "set_number_of_replicas"
                    THEN /\ Built[i].operations[1].path = <<"/spec/replicas">>
                         /\ Built[i].operations[1].value = events[i].num
                    ELSE /\ Built[i].operations[1].path =
                               <<"/spec/template/metadata/labels/", events[i].body>>
                         /\ Built[i].operations[1].value = events[i].msg

\* two calls of set_number_of_replicas for one name, then a label: three entries
C20_Witness ==
    /\ command = "ResourcesUpdate"
    /\ Len(Built) = 3
    /\ Built[1].name = Built[2].name
    /\ Built[1].operations[1].path = Built[2].operations[1].path
    /\ Built[1].operations[1].value = 1
    /\ Built[2].operations[1].value = 2
    /\ events[3].kind = "set_label"

\* a call of delete-old-deployments has been refused
DeleteFailed ==
    command = "delete-old-deployments" /\ \E i \in 1..Len(events) : IsServerError(events[i])

\* the deletion order: the queried names other than the target, descending
DeletionOrder == NamesToDelete(SortedByNameDesc(deployments), TargetDeploymentName)

\* the position in the history of the j-th DELETE
DeleteAt(j) == CHOOSE i \in Deletes : Cardinality({x \in Deletes : x <= i}) = j

\* C21: when a call of delete-old-deployments is refused, at the k-th
\* deployment of the deletion order, the invocation has ended with exit
\* status 2 and its history holds: for each of the first k deployments its
\* DELETE, in that order, all but the k-th answered with a change request id
\* (and, with --execute, approved and executed); the refused call as the last
\* call, made for the k-th deployment; and no line and no call at all for a
\* deployment later in the order, which are exactly those still to delete.
C21_DeleteFailureLeavesPrefix ==
    DeleteFailed
        => LET k == Cardinality(Deletes)
           IN /\ pc = "exited"
              /\ exit_code = 2
              /\ 1 <= k
              /\ k <= Len(DeletionOrder)
              /\ \A j \in 1..k : events[DeleteAt(j)].name = DeletionOrder[j]
              /\ \A j \in 1..(k - 1) :
                    /\ events[DeleteAt(j)].response_id # 0
                    /\ execute =>
                          /\ IsApprove(events[DeleteAt(j) + 1])
                          /\ IsExecute(events[DeleteAt(j) + 2])
              /\ LastRequest >= DeleteAt(k)
              /\ LastRequest = Len(events) - 1
              /\ \A j \in (k + 1)..Len(DeletionOrder) :
                    \A i \in 1..Len(events) : events[i].name # DeletionOrder[j]
              /\ deployments_to_delete = SubSeq(DeletionOrder, k + 1, Len(DeletionOrder))

\* the execute of the first of two deletions is refused: the second
\* deployment is left alone
C21_Witness ==
    /\ DeleteFailed
    /\ Cardinality(Deletes) = 1
    /\ Len(DeletionOrder) = 2
    /\ IsExecute(events[LastRequest])

\* how many polls of the pods a history holds
PollCount(history) == Cardinality({i \in 1..Len(history) : history[i] = GetPodsCall})

\* C22: whatever the polls return, a wait-for-deployment that has entered its
\* loop ends, with success or with the abort at the cutoff (exit status 1),
\* given that every sleep moves the clock on by the interval or more; and a
\* poll is only ever started while the clock is before start + timeout.
C22_WaitTerminates ==
    /\ (pc = "poll") ~> (WaitSucceeded \/ WaitAborted)
    /\ [](pc = "poll" => cutoff = timeout)
    /\ [][PollCount(events') > PollCount(events) => now < timeout]_vars

\* polls that found pods, none of them ready, until the cutoff
C22_Witness ==
    /\ WaitAborted
    /\ Cardinality(WaitingLines) = 2
    /\ \A i \in WaitingLines : events[i].json[2] > 0

\* the fields an entry of an update document may replace
PatchPaths ==
    {<<"/spec/replicas">>} \cup {<<"/spec/template/metadata/labels/", k>> : k \in {"stage"}}

\* every entry of the document holds one replace of one field, and no two
\* entries name the same deployment and path
WellFormedUpdate(doc) ==
    /\ \A i \in 1..Len(doc) :
          /\ Len(doc[i].operations) = 1
          /\ doc[i].operations[1].op = "replace"
          /\ doc[i].operations[1].path \in PatchPaths
    /\ \A i, j \in 1..Len(doc) :
          (i # j /\ doc[i].name = doc[j].name)
              => doc[i].operations[1].path # doc[j].operations[1].path

\* C23: the update document that switch-deployment, scale-deployment or
\* promote-deployment builds and submits holds, in every entry, exactly one
\* replace operation on /spec/replicas or on one label, and never two entries
\* for the same deployment name and path (the names a query returns being
\* distinct).
C23_OneReplacePerNameAndPath ==
    command \in {"switch-deployment", "scale-deployment", "promote-deployment"}
        => /\ WellFormedUpdate(resources_update)
           /\ \A i \in Submits :
                 /\ events[i].json = resources_update
                 /\ events[i].json # <<>>

\* a switch over three deployments, its three entries submitted
C23_Witness ==
    /\ command = "switch-deployment"
    /\ Submits # {}
    /\ \A i \in Submits : Len(events[i].json) = 3
    /\ Cardinality({resources_update[i].name : i \in 1..Len(resources_update)}) = 3

\* the position of the latest submit before position i
SubmitBefore(i) == CHOOSE j \in Submits : j < i /\ \A x \in Submits : x < i => x <= j

\* C24: every approve and every execute call names the change request id
\* that the latest submit before it returned, so in delete-old-deployments
\* the id of that deletion's own DELETE response, which differs from the id
\* of every earlier submit of the invocation.
C24_ApproveExecuteUseLatestId ==
    \A i \in Requests :
        (IsApprove(events[i]) \/ IsExecute(events[i]))
            => /\ execute
               /\ \E j \in Submits : j < i
               /\ LET latest == SubmitBefore(i)
                  IN /\ events[latest].response_id # 0
                     /\ events[i].num = events[latest].response_id
                     /\ \A j \in Submits :
                           j < latest => events[j].response_id # events[i].num

\* two deletions under --execute, each approved and executed with its own id
C24_Witness ==
    /\ command = "delete-old-deployments"
    /\ execute
    /\ pc = "exited"
    /\ exit_code = 0
    /\ Cardinality(Deletes) = 2
    /\ Cardinality({events[i].num : i \in {x \in Requests : IsExecute(events[x])}}) = 2

\* the calls of the change authority, in the order they were made
RequestSeq == SelectSeq(events, LAMBDA e : e.kind = "request")

\* C25: under --execute the calls of delete-old-deployments come in rounds of
\* three, one round per deployment in descending order of name: the DELETE,
\* then the approve and then the execute of the change request that DELETE
\* returned; a DELETE is only ever issued as the first call or right after the
\* execute of the round before, which was answered without an error.
C25_DeleteRoundsInterleaved ==
    (command = "delete-old-deployments" /\ execute)
        => LET reqs == RequestSeq
           IN /\ \A i \in 1..Len(events) :
                    IsServerError(events[i])
                        => i = Len(events) /\ events[i - 1] = reqs[Len(reqs)]
              /\ \A r \in 1..Len(reqs) :
                    /\ r % 3 = 1 =>
                          /\ reqs[r].method = "DELETE"
                          /\ r > 3 =>
                                /\ IsExecute(reqs[r - 1])
                                /\ StrLess(reqs[r].name, reqs[r - 3].name)
                    /\ r % 3 = 2 =>
                          /\ IsApprove(reqs[r])
                          /\ reqs[r - 1].response_id # 0
                          /\ reqs[r].num = reqs[r - 1].response_id
                    /\ r % 3 = 0 =>
                          /\ IsExecute(reqs[r])
                          /\ reqs[r].num = reqs[r - 2].response_id

\* two rounds: DELETE, approve, execute of v2-r9, then of v2-r41
C25_Witness ==
    /\ command = "delete-old-deployments"
    /\ execute
    /\ Len(RequestSeq) = 6
    /\ RequestSeq[1].name = DeploymentName(myapp, v2, r9)
    /\ RequestSeq[4].name = DeploymentName(myapp, v2, r41)
    /\ IsExecute(RequestSeq[6])

\* the entries of the plan with a count other than zero
PlannedNonZero == {i \in 1..Len(resources_update) : PlannedReplicas(i) # 0}

\* entry i is for the greatest name among the deployments other than the target
FirstNonTarget(i) ==
    /\ PlannedName(i) # TargetDeploymentName
    /\ \A j \in 1..Len(resources_update) :
          (j # i /\ PlannedName(j) # TargetDeploymentName)
              => StrLess(PlannedName(j), PlannedName(i))

\* C26: for a ratio with targetReplicas <= total and a queried set that holds
\* the target, every count of the plan lies in 0..total, and a count other
\* than zero is only given to the target and to the first deployment other
\* than the target in descending order of name: at most two in all.
C26_CountsInRangeAtMostTwoNonZero ==
    (SwitchPlanned /\ RatioTarget <= RatioTotal)
        => /\ \A i \in 1..Len(resources_update) :
                 /\ PlannedReplicas(i) \in 0..RatioTotal
                 /\ PlannedReplicas(i) # 0 =>
                       PlannedName(i) = TargetDeploymentName \/ FirstNonTarget(i)
           /\ Cardinality(PlannedNonZero) <= 2

\* three deployments, ratio 1/2: two of them get 1, the last gets 0
C26_Witness ==
    /\ SwitchPlanned
    /\ RatioTarget = 1
    /\ RatioTotal = 2
    /\ Len(resources_update) = 3
    /\ Cardinality(PlannedNonZero) = 2
    /\ PlannedReplicas(3) = 0

\* C27: a wait-for-deployment with timeout 0 never queries the pods and never
\* ends with success: once past its login it aborts (exit status 1) with the
\* login as its only call, whatever the pods are; and for any timeout the
\* step that ends the wait with success is a round of the loop that was
\* entered while the clock was before the cutoff.
C27_TimeoutZeroAbortsWithoutPoll ==
    /\ []((command = "wait-for-deployment" /\ timeout = 0)
             => /\ PollCount(events) = 0
                /\ ~WaitSucceeded
                /\ (pc = "exited" /\ ~Malformed)
                      => WaitAborted /\ events = <<LoginCall>>)
    /\ [][(WaitSucceeded' /\ ~WaitSucceeded)
             => /\ pc = "poll"
                /\ now < cutoff
                /\ PollCount(events') = PollCount(events) + 1]_vars

\* --timeout 0: login, then the abort
C27_Witness ==
    /\ command = "wait-for-deployment"
    /\ timeout = 0
    /\ WaitAborted
    /\ events = <<LoginCall>>

=============================================================================
